---- MODULE Spec2Model ----
(***************************************************************************)
(* State-machine model of src/scraper.py (ArchivportalScraper): the        *)
(* rate-limited fetch with its retry loop, pagination planning, the        *)
(* batched crawl with de-duplicating admission, and the enrichment pass.   *)
(*                                                                         *)
(* Scheduling is asyncio's: a coroutine runs without interruption between  *)
(* two suspension points, which in this program are the start of a         *)
(* coroutine passed to asyncio.gather, entering the semaphore, the HTTP    *)
(* GET and asyncio.sleep.  Every action below is one such uninterrupted    *)
(* stretch of code.  Entering the semaphore is a step of its own for every *)
(* fetch call, also when a permit is free and asyncio would not suspend:   *)
(* this only adds interleavings.                                           *)
(***************************************************************************)
EXTENDS Integers, Sequences, FiniteSets, TLC

(***************************************************************************)
(* Program constants.                                                      *)
(***************************************************************************)
ROWS_PER_PAGE == 100
MAX_CONCURRENT == 30
retries == 3

(***************************************************************************)
(* Bounds of the model.  batch_size is 10 in the source (lines 375 and     *)
(* 421); the model runs a smaller batch so that the interleavings of one   *)
(* batch stay enumerable, and every formula is stated in terms of          *)
(* batch_size.                                                             *)
(***************************************************************************)
batch_size == 2
MaxItems == 3
MaxFaultyCalls == 1
MaxTotal == 350

(***************************************************************************)
(* Strings are sequences of one-character strings, so that lower(),        *)
(* strip() and the regular expression of hash_key are computed.            *)
(***************************************************************************)
UpperCase == {"A", "B", "F", "G", "N"}
Digits == {"0", "1", "2", "8", "9"}
Blank == " "

LowerChar(c) ==
    CASE c = "A" -> "a"
      [] c = "B" -> "b"
      [] c = "F" -> "f"
      [] c = "G" -> "g"
      [] c = "N" -> "n"
      [] OTHER -> c

lower(s) == [k \in 1..Len(s) |-> LowerChar(s[k])]

RECURSIVE lstrip(_)
lstrip(s) == IF s # <<>> /\ Head(s) = Blank THEN lstrip(Tail(s)) ELSE s

RECURSIVE rstrip(_)
rstrip(s) ==
    IF s # <<>> /\ s[Len(s)] = Blank THEN rstrip(SubSeq(s, 1, Len(s) - 1)) ELSE s

strip(s) == rstrip(lstrip(s))

NON_SPECIFIE == <<"N", "o", "n", " ", "s", "p", "e", "c">>
BERLIN == <<"B", "e", "r", "l", "i", "n">>

(* two values of extract_date *)
Y1980 == <<"1", "9", "8", "0">>
Y1981 == <<"1", "9", "8", "1">>

(***************************************************************************)
(* URLs.  A URL is a record: the search endpoint with offset and rows, an  *)
(* item page with the path segment that follows "/item/", or the OAI       *)
(* endpoint with an identifier.                                            *)
(***************************************************************************)
SearchUrl(offset, rows) ==
    [site |-> "objekte", offset |-> offset, rows |-> rows, seg |-> <<>>]

ItemUrl(seg) == [site |-> "item", offset |-> 0, rows |-> 0, seg |-> seg]

OaiUrl(item_id) == [site |-> "oai", offset |-> 0, rows |-> 0, seg |-> item_id]

CountUrl == SearchUrl(0, 1)

(* re.search(r'/item/([A-Z0-9]+)', url): the longest run of upper-case      *)
(* letters and digits right after "/item/"; <<>> stands for "no match".     *)
RECURSIVE IdPrefix(_)
IdPrefix(seg) ==
    IF seg # <<>> /\ Head(seg) \in UpperCase \cup Digits
    THEN <<Head(seg)>> \o IdPrefix(Tail(seg))
    ELSE <<>>

ItemId(url) == IF url.site = "item" THEN IdPrefix(url.seg) ELSE <<>>

(***************************************************************************)
(* Initiative and its canonical key.  The string handed to md5 is built   *)
(* as the f-string builds it, by joining the three parts with "|".  md5    *)
(* itself is modelled as injective: the digest is the string it was        *)
(* computed from, tagged so that it is never equal to an item identifier.  *)
(***************************************************************************)
Initiative(titre, periode, lieu, url) ==
    [titre |-> titre, periode |-> periode, lieu |-> lieu, url |-> url,
     institution |-> ""]

hash_key(init) ==
    IF ItemId(init.url) # <<>>
    THEN [id |-> ItemId(init.url), md5 |-> <<>>]
    ELSE [id |-> <<>>,
          md5 |-> strip(lower(init.titre)) \o <<"|">> \o init.periode
                  \o <<"|">> \o strip(lower(init.lieu))]


(***************************************************************************)
(* What the site may serve.  Candidates are the records parse_list_item    *)
(* can build from the fragments of a list page: two items that share the   *)
(* identifier A1 but differ in every other field, an item with identifier  *)
(* B2 and no place, and two items whose URL has no parseable identifier    *)
(* (the character after "/item/" is lower case) and whose normalized       *)
(* triples are equal.                                                      *)
(***************************************************************************)
Candidates ==
    { Initiative(<<"A">>, Y1980, BERLIN, ItemUrl(<<"A", "1">>)),
      Initiative(<<"B">>, Y1981, NON_SPECIFIE, ItemUrl(<<"A", "1", "b">>)),
      Initiative(<<"B">>, Y1980, NON_SPECIFIE, ItemUrl(<<"B", "2">>)),
      Initiative(<<"G">>, Y1980, NON_SPECIFIE, ItemUrl(<<"g">>)),
      Initiative(<<"g">>, Y1980, NON_SPECIFIE, ItemUrl(<<"g", "2">>)) }

SeqsUpTo(S, n) == UNION { [1..k -> S] : k \in 0..n }

(* The totals the count page may show in a run: 0 (no "of N" in the page)   *)
(* and, for each number of pages up to MaxPages (one more than a batch      *)
(* holds), one total that needs that many pages.                            *)
MaxPages == batch_size + 1

TotalChoices == {0} \cup { (p - 1) * ROWS_PER_PAGE + 1 : p \in 1..MaxPages }

(* A response body, summarised by what the parsers read from it.  empty:    *)
(* the body is the empty string; total: the number after "of" on the count  *)
(* page (0: none); items: the records of a list page, in page order;       *)
(* place: the outcome of extract_location_ner over the organization links   *)
(* or the dataProvider elements; wellformed: ET.fromstring succeeds.       *)
Body(empty, tot, items, place, wellformed) ==
    [empty |-> empty, total |-> tot, items |-> items, place |-> place,
     wellformed |-> wellformed]

NoBody == Body(TRUE, 0, <<>>, NON_SPECIFIE, FALSE)

(* room: the number of records the site may still serve in this run        *)
Bodies(url, room) ==
    {NoBody} \cup
    CASE url.site = "objekte" /\ url.rows = 1 ->
           { Body(FALSE, n, <<>>, NON_SPECIFIE, TRUE) : n \in TotalChoices }
      [] url.site = "objekte" /\ url.rows # 1 ->
           { Body(FALSE, 0, its, NON_SPECIFIE, TRUE) :
               its \in SeqsUpTo(Candidates, room) }
      [] url.site = "item" ->
           { Body(FALSE, 0, <<>>, pl, TRUE) : pl \in {NON_SPECIFIE, BERLIN} }
      [] OTHER ->
           { Body(FALSE, 0, <<>>, NON_SPECIFIE, FALSE) } \cup
           { Body(FALSE, 0, <<>>, pl, TRUE) : pl \in {NON_SPECIFIE, BERLIN} }

(***************************************************************************)
(* State.                                                                  *)
(*   pc              position of main()/scrape_all                         *)
(*   total, urls, i  locals of scrape_all; i is also the loop variable of  *)
(*                   enrich_missing_locations                              *)
(*   tasks           the coroutines awaited at present: the fetch of       *)
(*                   get_total_results or the tasks of one asyncio.gather  *)
(*   semaphore       value of self.semaphore                               *)
(*   results, seen_hashes, errors, duplicates, parse_failures              *)
(*                   the fields of ArchivportalScraper                     *)
(*   no_loc, found   locals of enrich_missing_locations (no_loc holds the  *)
(*                   positions in results of the records it refers to)     *)
(*   reported        the planning failure message has been printed         *)
(*   exported        export_csv has been called                            *)
(* History variables (not program state):                                  *)
(*   admitted        the add_result calls so far: key, return value and    *)
(*                   the record passed                                     *)
(*   fetch_calls     number of fetch calls so far, by URL                  *)
(*   faults          number of fetch calls with an attempt that did not    *)
(*                   end in a 200                                          *)
(***************************************************************************)
VARIABLES pc, total, urls, i, tasks, semaphore, results, seen_hashes, errors,
          duplicates, parse_failures, no_loc, found, reported, exported,
          admitted, fetch_calls, faults

vars == <<pc, total, urls, i, tasks, semaphore, results, seen_hashes, errors,
          duplicates, parse_failures, no_loc, found, reported, exported,
          admitted, fetch_calls, faults>>

(* A coroutine that is inside fetch or has finished.  pc: "acquire"        *)
(* (waiting to enter `async with self.semaphore`), "get" (GET in flight),  *)
(* "sleep" (in asyncio.sleep for wait seconds), "done".  attempt is the    *)
(* loop variable of fetch.  n429, logged, ret and hit are history of the   *)
(* current fetch call: the number of its attempts answered 429, the number *)
(* of entries it appended to errors, what it returned, and whether one of  *)
(* its attempts did not end in a 200.                                      *)
NewTask(kind, url, ref) ==
    [kind |-> kind, url |-> url, ref |-> ref, pc |-> "acquire", attempt |-> 0,
     wait |-> 0, n429 |-> 0, logged |-> 0, ret |-> "pending", hit |-> FALSE]

Called(fc, u) == IF u \in DOMAIN fc THEN fc[u] ELSE 0

LogCall(fc, u) ==
    [x \in DOMAIN fc \cup {u} |-> IF x = u THEN Called(fc, u) + 1 ELSE fc[x]]

RECURSIVE LogCalls(_, _)
LogCalls(fc, us) ==
    IF us = <<>> THEN fc ELSE LogCalls(LogCall(fc, Head(us)), Tail(us))

Init ==
    /\ pc = "start"
    /\ total = 0
    /\ urls = <<>>
    /\ i = 0
    /\ tasks = <<>>
    /\ semaphore = MAX_CONCURRENT
    /\ results = <<>>
    /\ seen_hashes = {}
    /\ errors = <<>>
    /\ duplicates = <<>>
    /\ parse_failures = <<>>
    /\ no_loc = <<>>
    /\ found = 0
    /\ reported = FALSE
    /\ exported = FALSE
    /\ admitted = <<>>
    /\ fetch_calls = <<>>
    /\ faults = 0


(***************************************************************************)
(* Deduplicating admission.                                                *)
(***************************************************************************)
(* add_result on the state st = [results, seen_hashes, duplicates,         *)
(* admitted]; the value returned is recorded in the last entry of admitted *)
add_result_unmarked(st, initiative) ==
    LET key == hash_key(initiative) IN
    IF key \in st.seen_hashes
    THEN [st EXCEPT
            !.duplicates =
                Append(@, [titre |-> initiative.titre, url |-> initiative.url]),
            !.admitted = Append(@, [key |-> key, accepted |-> FALSE,
                                    item |-> initiative])]
    ELSE [st EXCEPT
            !.results = Append(@, initiative),
            !.admitted = Append(@, [key |-> key, accepted |-> TRUE,
                                    item |-> initiative])]

(* a variant that puts an accepted record at the head of results *)
add_result_prepend(st, initiative) ==
    LET key == hash_key(initiative) IN
    IF key \in st.seen_hashes
    THEN [st EXCEPT
            !.duplicates =
                Append(@, [titre |-> initiative.titre, url |-> initiative.url]),
            !.admitted = Append(@, [key |-> key, accepted |-> FALSE,
                                    item |-> initiative])]
    ELSE [st EXCEPT
            !.seen_hashes = @ \cup {key},
            !.results = <<initiative>> \o @,
            !.admitted = Append(@, [key |-> key, accepted |-> TRUE,
                                    item |-> initiative])]

add_result(st, initiative) ==
    LET key == hash_key(initiative) IN
    IF key \in st.seen_hashes
    THEN [st EXCEPT
            !.duplicates =
                Append(@, [titre |-> initiative.titre, url |-> initiative.url]),
            !.admitted = Append(@, [key |-> key, accepted |-> FALSE,
                                    item |-> initiative])]
    ELSE [st EXCEPT
            !.seen_hashes = @ \cup {key},
            !.results = Append(@, initiative),
            !.admitted = Append(@, [key |-> key, accepted |-> TRUE,
                                    item |-> initiative])]

(* for item, item_html in items: if self.add_result(item): pbar.update(1)  *)
RECURSIVE add_results(_, _)
add_results(st, items) ==
    IF items = <<>> THEN st
    ELSE add_results(add_result(st, Head(items)), Tail(items))

(***************************************************************************)
(* Pagination.                                                             *)
(***************************************************************************)
PageCount_floor(tot) == tot \div ROWS_PER_PAGE

PageCount(tot) == (tot + ROWS_PER_PAGE - 1) \div ROWS_PER_PAGE

PlanUrls(tot) ==
    [k \in 1..PageCount(tot) |-> SearchUrl((k - 1) * ROWS_PER_PAGE, ROWS_PER_PAGE)]

(* urls[i:i + batch_size] (0-based i), one process_list_page task each;    *)
(* ref is the 0-based index of the page in urls                            *)
Min(a, b) == IF a < b THEN a ELSE b

(* a variant that starts every remaining page at once *)
ListBatch_all(us, start) ==
    [k \in 1..(Len(us) - start) |-> NewTask("list", us[start + k], start + k - 1)]

ListBatch(us, start) ==
    [k \in 1..(Min(start + batch_size, Len(us)) - start) |->
        NewTask("list", us[start + k], start + k - 1)]

(* no_loc[i:i + batch_size], one process_detail task each; ref is the      *)
(* position in results of the record the task holds                        *)
DetailBatch(res, nl, start) ==
    [k \in 1..(Min(start + batch_size, Len(nl)) - start) |->
        NewTask("detail", res[nl[start + k]].url, nl[start + k])]

TaskUrls(ts) == [k \in 1..Len(ts) |-> ts[k].url]

(* [i for i in self.results if i.lieu == "Non spécifié"], as positions     *)
RECURSIVE MissingFrom(_, _)
MissingFrom(res, k) ==
    IF k > Len(res) THEN <<>>
    ELSE (IF res[k].lieu = NON_SPECIFIE THEN <<k>> ELSE <<>>)
         \o MissingFrom(res, k + 1)

(* a variant that hands every accepted record to the enrichment pass *)
NoLoc_all(res) == [k \in 1..Len(res) |-> k]

NoLoc(res) == MissingFrom(res, 1)

(***************************************************************************)
(* The semaphore and asyncio.gather.                                       *)
(***************************************************************************)
acquire(value) == value - 1

release_leak(value) == value

release(value) == value + 1

IsDone(task) == task.pc = "done"

gather_done_unawaited(ts) == TRUE

gather_done_any(ts) == \E k \in 1..Len(ts) : IsDone(ts[k])

(* await asyncio.gather(...) returns when every coroutine has returned  *)
gather_done(ts) == \A k \in 1..Len(ts) : IsDone(ts[k])

Running(ts) == SelectSeq(ts, LAMBDA task : ~IsDone(task))


(***************************************************************************)
(* What runs when a fetch call returns, up to the next suspension point.   *)
(* html is the value returned: html.empty is `not html` (None or "").      *)
(* tk is the coroutine's record at the return.                             *)
(***************************************************************************)
Store ==
    [results |-> results, seen_hashes |-> seen_hashes,
     duplicates |-> duplicates, admitted |-> admitted]

PlanReturn_unchecked(t, tk, html) ==
    LET tot == IF html.empty THEN 0 ELSE html.total IN
    /\ total' = tot
    /\ urls' = PlanUrls(tot)
    /\ i' = 0
    /\ pc' = "crawl"
    /\ tasks' = ListBatch(PlanUrls(tot), 0)
    /\ fetch_calls' = LogCalls(fetch_calls, TaskUrls(ListBatch(PlanUrls(tot), 0)))
    /\ UNCHANGED <<results, seen_hashes, duplicates, parse_failures, no_loc,
                   found, admitted, reported>>

(* get_total_results from its fetch on, then scrape_all up to the first    *)
(* asyncio.gather                                                          *)
PlanReturn(t, tk, html) ==
    LET tot == IF html.empty THEN 0 ELSE html.total IN
    /\ total' = tot
    /\ IF tot = 0
       THEN /\ reported' = TRUE
            /\ pc' = "returned"
            /\ tasks' = [tasks EXCEPT ![t] = tk]
            /\ UNCHANGED <<urls, i, fetch_calls>>
       ELSE /\ urls' = PlanUrls(tot)
            /\ i' = 0
            /\ pc' = "crawl"
            /\ tasks' = ListBatch(PlanUrls(tot), 0)
            /\ fetch_calls' =
                 LogCalls(fetch_calls, TaskUrls(ListBatch(PlanUrls(tot), 0)))
            /\ UNCHANGED reported
    /\ UNCHANGED <<results, seen_hashes, duplicates, parse_failures, no_loc,
                   found, admitted>>

(* a variant in which a page whose fetch failed is fetched again *)
ListReturn_refetch(t, tk, html) ==
    IF tk.ret = "failure"
    THEN /\ tasks' = [tasks EXCEPT ![t] = NewTask("list", tk.url, tk.ref)]
         /\ fetch_calls' = LogCall(fetch_calls, tk.url)
         /\ UNCHANGED <<pc, total, urls, i, results, seen_hashes, duplicates,
                        parse_failures, no_loc, found, reported, admitted>>
    ELSE LET st == IF html.empty THEN Store ELSE add_results(Store, html.items) IN
         /\ results' = st.results
         /\ seen_hashes' = st.seen_hashes
         /\ duplicates' = st.duplicates
         /\ admitted' = st.admitted
         /\ tasks' = [tasks EXCEPT ![t] = tk]
         /\ UNCHANGED <<pc, total, urls, i, parse_failures, no_loc, found,
                        reported, fetch_calls>>

(* process_list_page from its fetch on.  parse_list_page has no suspension *)
(* point, and parse_list_item finds in every fragment the link the         *)
(* fragment was cut around, so parse_failures is not appended to.          *)
ListReturn(t, tk, html) ==
    LET st == IF html.empty THEN Store ELSE add_results(Store, html.items) IN
    /\ results' = st.results
    /\ seen_hashes' = st.seen_hashes
    /\ duplicates' = st.duplicates
    /\ admitted' = st.admitted
    /\ tasks' = [tasks EXCEPT ![t] = tk]
    /\ UNCHANGED <<pc, total, urls, i, parse_failures, no_loc, found, reported,
                   fetch_calls>>

(* a variant that counts every task, with or without a place *)
process_detail_counting(t, tk, lieu) ==
    /\ IF lieu # <<>>
       THEN results' = [results EXCEPT ![tk.ref].lieu = lieu]
       ELSE UNCHANGED results
    /\ found' = found + 1
    /\ tasks' = [tasks EXCEPT ![t] = tk]
    /\ UNCHANGED <<pc, total, urls, i, seen_hashes, duplicates, parse_failures,
                   no_loc, reported, admitted, fetch_calls>>

(* process_detail once fetch_detail_location has returned lieu (<<>> is    *)
(* None)                                                                   *)
process_detail(t, tk, lieu) ==
    /\ IF lieu # <<>>
       THEN /\ results' = [results EXCEPT ![tk.ref].lieu = lieu]
            /\ found' = found + 1
       ELSE UNCHANGED <<results, found>>
    /\ tasks' = [tasks EXCEPT ![t] = tk]
    /\ UNCHANGED <<pc, total, urls, i, seen_hashes, duplicates, parse_failures,
                   no_loc, reported, admitted, fetch_calls>>

fetch_detail_location_fallthrough(t, tk, html) ==
    IF html.empty THEN process_detail(t, tk, <<>>)
    ELSE IF ItemId(tk.url) # <<>>
    THEN /\ tasks' = [tasks EXCEPT
                        ![t] = NewTask("detail", OaiUrl(ItemId(tk.url)), tk.ref)]
         /\ fetch_calls' = LogCall(fetch_calls, OaiUrl(ItemId(tk.url)))
         /\ results' = [results EXCEPT ![tk.ref].lieu = html.place]
         /\ UNCHANGED <<pc, total, urls, i, seen_hashes, duplicates,
                        parse_failures, no_loc, found, reported, admitted>>
    ELSE process_detail(t, tk, IF html.place # NON_SPECIFIE THEN html.place ELSE <<>>)

(* fetch_detail_location from its fetch on *)
fetch_detail_location(t, tk, html) ==
    IF html.empty THEN process_detail(t, tk, <<>>)
    ELSE IF html.place # NON_SPECIFIE THEN process_detail(t, tk, html.place)
    ELSE IF ItemId(tk.url) # <<>>
    THEN /\ tasks' = [tasks EXCEPT
                        ![t] = NewTask("detail", OaiUrl(ItemId(tk.url)), tk.ref)]
         /\ fetch_calls' = LogCall(fetch_calls, OaiUrl(ItemId(tk.url)))
         /\ UNCHANGED <<pc, total, urls, i, results, seen_hashes, duplicates,
                        parse_failures, no_loc, found, reported, admitted>>
    ELSE process_detail(t, tk, <<>>)

(* fetch_oai_location from its fetch on, then the return through           *)
(* fetch_detail_location into process_detail                               *)
fetch_oai_location(t, tk, html) ==
    IF html.empty THEN process_detail(t, tk, <<>>)
    ELSE IF ~html.wellformed THEN process_detail(t, tk, <<>>)
    ELSE IF html.place # NON_SPECIFIE THEN process_detail(t, tk, html.place)
    ELSE process_detail(t, tk, <<>>)

Return(t, tk, html) ==
    CASE tk.kind = "plan" -> PlanReturn(t, tk, html)
      [] tk.kind = "list" -> ListReturn(t, tk, html)
      [] tk.kind = "detail" /\ tk.url.site = "item" ->
           fetch_detail_location(t, tk, html)
      [] OTHER -> fetch_oai_location(t, tk, html)

(***************************************************************************)
(* fetch.                                                                  *)
(***************************************************************************)
(* leaving `async with self.semaphore` by a return *)
ReturnFrom(t, tk, ret, html) ==
    /\ semaphore' = release(semaphore)
    /\ Return(t, [tk EXCEPT !.pc = "done", !.ret = ret], html)

(* a variant that retries until a GET is answered 200 or with a status     *)
(* other than 429                                                          *)
NextAttempt_forever(t, tk) ==
    /\ tasks' = [tasks EXCEPT ![t] = [tk EXCEPT !.pc = "get", !.wait = 0]]
    /\ UNCHANGED <<pc, total, urls, i, semaphore, results, seen_hashes,
                   duplicates, parse_failures, no_loc, found, reported,
                   admitted, fetch_calls>>

(* a variant whose loop runs once more than `retries` *)
NextAttempt_onemore(t, tk) ==
    IF tk.attempt + 1 <= retries
    THEN /\ tasks' = [tasks EXCEPT
                        ![t] = [tk EXCEPT !.attempt = @ + 1, !.pc = "get",
                                          !.wait = 0]]
         /\ UNCHANGED <<pc, total, urls, i, semaphore, results, seen_hashes,
                        duplicates, parse_failures, no_loc, found, reported,
                        admitted, fetch_calls>>
    ELSE ReturnFrom(t, tk, "failure", NoBody)

(* the end of one iteration of `for attempt in range(retries)`: the next   *)
(* GET, or the `return None` after the loop                                *)
NextAttempt(t, tk) ==
    IF tk.attempt + 1 < retries
    THEN /\ tasks' = [tasks EXCEPT
                        ![t] = [tk EXCEPT !.attempt = @ + 1, !.pc = "get",
                                          !.wait = 0]]
         /\ UNCHANGED <<pc, total, urls, i, semaphore, results, seen_hashes,
                        duplicates, parse_failures, no_loc, found, reported,
                        admitted, fetch_calls>>
    ELSE ReturnFrom(t, tk, "failure", NoBody)

ErrorEntry(url, status, error) == [url |-> url, status |-> status, error |-> error]

(* The site fails an attempt of at most MaxFaultyCalls fetch calls of a    *)
(* run; a call it has failed once may fail on every later attempt.         *)
MayFail(t) == tasks[t].hit \/ faults < MaxFaultyCalls

Failed(t) == IF tasks[t].hit THEN faults ELSE faults + 1

(* async with self.semaphore: enter, then issue the first GET *)
Acquire(t) ==
    /\ tasks[t].pc = "acquire"
    /\ semaphore > 0
    /\ semaphore' = acquire(semaphore)
    /\ tasks' = [tasks EXCEPT ![t].pc = "get"]
    /\ UNCHANGED <<pc, total, urls, i, results, seen_hashes, errors, duplicates,
                   parse_failures, no_loc, found, reported, exported, admitted,
                   fetch_calls, faults>>

(* response.status == 200: return await response.text() *)
Response200(t) ==
    /\ tasks[t].pc = "get"
    /\ \E html \in Bodies(tasks[t].url, MaxItems - Len(admitted)) :
         ReturnFrom(t, tasks[t], "body", html)
    /\ UNCHANGED <<errors, exported, faults>>

(* response.status == 429: await asyncio.sleep(2 ** attempt) *)
Response429(t) ==
    /\ tasks[t].pc = "get"
    /\ MayFail(t)
    /\ faults' = Failed(t)
    /\ tasks' = [tasks EXCEPT
                   ![t] = [@ EXCEPT !.pc = "sleep", !.n429 = @ + 1, !.hit = TRUE,
                                      !.wait = 2 ^ tasks[t].attempt]]
    /\ UNCHANGED <<pc, total, urls, i, semaphore, results, seen_hashes, errors,
                   duplicates, parse_failures, no_loc, found, reported,
                   exported, admitted, fetch_calls>>

(* any other status (500 stands for it): one entry, return None *)
ResponseOther(t) ==
    /\ tasks[t].pc = "get"
    /\ MayFail(t)
    /\ faults' = Failed(t)
    /\ errors' = Append(errors, ErrorEntry(tasks[t].url, 500, ""))
    /\ ReturnFrom(t, [tasks[t] EXCEPT !.logged = @ + 1, !.hit = TRUE],
                  "failure", NoBody)
    /\ UNCHANGED exported

(* except asyncio.TimeoutError: await asyncio.sleep(1) *)
Timeout(t) ==
    /\ tasks[t].pc = "get"
    /\ MayFail(t)
    /\ faults' = Failed(t)
    /\ tasks' = [tasks EXCEPT
                   ![t] = [@ EXCEPT !.pc = "sleep", !.wait = 1, !.hit = TRUE]]
    /\ UNCHANGED <<pc, total, urls, i, semaphore, results, seen_hashes, errors,
                   duplicates, parse_failures, no_loc, found, reported,
                   exported, admitted, fetch_calls>>

(* except Exception: an entry on the last attempt only *)
TransportError(t) ==
    /\ tasks[t].pc = "get"
    /\ MayFail(t)
    /\ faults' = Failed(t)
    /\ LET last == tasks[t].attempt = retries - 1 IN
       /\ errors' = IF last
                    THEN Append(errors, ErrorEntry(tasks[t].url, 0, "error"))
                    ELSE errors
       /\ NextAttempt(t, [tasks[t] EXCEPT
                            !.logged = IF last THEN @ + 1 ELSE @,
                            !.hit = TRUE])
    /\ UNCHANGED exported

(* asyncio.sleep returns *)
Wake(t) ==
    /\ tasks[t].pc = "sleep"
    /\ NextAttempt(t, tasks[t])
    /\ UNCHANGED <<errors, exported, faults>>

(***************************************************************************)
(* scrape_all, enrich_missing_locations and main.                          *)
(***************************************************************************)
(* scrape_all calls get_total_results, which calls fetch *)
Start ==
    /\ pc = "start"
    /\ pc' = "planning"
    /\ tasks' = <<NewTask("plan", CountUrl, 0)>>
    /\ fetch_calls' = LogCall(fetch_calls, CountUrl)
    /\ UNCHANGED <<total, urls, i, semaphore, results, seen_hashes, errors,
                   duplicates, parse_failures, no_loc, found, reported,
                   exported, admitted, faults>>

(* the gather of a crawl batch returns: the next batch, or the call of     *)
(* enrich_missing_locations up to its first gather or its return           *)
CrawlBatchDone ==
    /\ pc = "crawl"
    /\ gather_done(tasks)
    /\ IF i + batch_size < Len(urls)
       THEN /\ i' = i + batch_size
            /\ tasks' = Running(tasks) \o ListBatch(urls, i + batch_size)
            /\ fetch_calls' =
                 LogCalls(fetch_calls, TaskUrls(ListBatch(urls, i + batch_size)))
            /\ UNCHANGED <<pc, no_loc, found>>
       ELSE /\ no_loc' = NoLoc(results)
            /\ found' = 0
            /\ IF NoLoc(results) = <<>>
               THEN /\ pc' = "returned"
                    /\ tasks' = Running(tasks)
                    /\ UNCHANGED <<i, fetch_calls>>
               ELSE /\ pc' = "enrich"
                    /\ i' = 0
                    /\ tasks' = Running(tasks)
                                \o DetailBatch(results, NoLoc(results), 0)
                    /\ fetch_calls' =
                         LogCalls(fetch_calls,
                                  TaskUrls(DetailBatch(results, NoLoc(results), 0)))
    /\ UNCHANGED <<total, urls, semaphore, results, seen_hashes, errors,
                   duplicates, parse_failures, reported, exported, admitted,
                   faults>>

(* the gather of an enrichment batch returns: the next batch, or the       *)
(* return of enrich_missing_locations and of scrape_all                    *)
EnrichBatchDone ==
    /\ pc = "enrich"
    /\ gather_done(tasks)
    /\ IF i + batch_size < Len(no_loc)
       THEN /\ i' = i + batch_size
            /\ tasks' = Running(tasks) \o DetailBatch(results, no_loc, i + batch_size)
            /\ fetch_calls' =
                 LogCalls(fetch_calls,
                          TaskUrls(DetailBatch(results, no_loc, i + batch_size)))
            /\ UNCHANGED pc
       ELSE /\ pc' = "returned"
            /\ tasks' = Running(tasks)
            /\ UNCHANGED <<i, fetch_calls>>
    /\ UNCHANGED <<total, urls, semaphore, results, seen_hashes, errors,
                   duplicates, parse_failures, no_loc, found, reported,
                   exported, admitted, faults>>

(* main after scrape_all: if scraper.results: scraper.export_csv(...) *)
Export ==
    /\ pc = "returned"
    /\ pc' = "exit"
    /\ exported' = (results # <<>>)
    /\ UNCHANGED <<total, urls, i, tasks, semaphore, results, seen_hashes,
                   errors, duplicates, parse_failures, no_loc, found, reported,
                   admitted, fetch_calls, faults>>

Next ==
    \/ Start
    \/ \E t \in DOMAIN tasks : Acquire(t)
    \/ \E t \in DOMAIN tasks : Response200(t)
    \/ \E t \in DOMAIN tasks : Response429(t)
    \/ \E t \in DOMAIN tasks : ResponseOther(t)
    \/ \E t \in DOMAIN tasks : Timeout(t)
    \/ \E t \in DOMAIN tasks : TransportError(t)
    \/ \E t \in DOMAIN tasks : Wake(t)
    \/ CrawlBatchDone
    \/ EnrichBatchDone
    \/ Export

Spec == Init /\ [][Next]_vars


(* The run under the assumptions that every GET ends (with a status, a    *)
(* timeout or a transport error), every sleep ends and the event loop runs *)
(* a coroutine that is ready: while a step is possible, one is taken.      *)
SpecFair == Init /\ [][Next]_vars /\ WF_vars(Next)

(***************************************************************************)
(* Pagination alone: the plan for every total from 1 to MaxTotal.          *)
(***************************************************************************)
InitPlan ==
    /\ pc = "plan"
    /\ total \in 1..MaxTotal
    /\ urls = <<>>
    /\ i = 0
    /\ tasks = <<>>
    /\ semaphore = MAX_CONCURRENT
    /\ results = <<>>
    /\ seen_hashes = {}
    /\ errors = <<>>
    /\ duplicates = <<>>
    /\ parse_failures = <<>>
    /\ no_loc = <<>>
    /\ found = 0
    /\ reported = FALSE
    /\ exported = FALSE
    /\ admitted = <<>>
    /\ fetch_calls = <<>>
    /\ faults = 0

(* scrape_all from `pages = ...` to the end of the list comprehension *)
Plan ==
    /\ pc = "plan"
    /\ pc' = "planned"
    /\ urls' = PlanUrls(total)
    /\ UNCHANGED <<total, i, tasks, semaphore, results, seen_hashes, errors,
                   duplicates, parse_failures, no_loc, found, reported,
                   exported, admitted, fetch_calls, faults>>

SpecPlan == InitPlan /\ [][Plan]_vars

(***************************************************************************)
(* Admission alone: add_result called twice on a new scraper, with records *)
(* parse_list_item can build.  The titles and places include ones that     *)
(* hold the "|" of the fingerprint string: a place comes from the text of  *)
(* the subtitle, a title from the text of the link.                        *)
(***************************************************************************)
MaxAdds == 2

KeyTitres == { <<"G">>, <<"g">>, <<"G", "|">> \o Y1980 \o <<"|", "F">> }

KeyLieux == { NON_SPECIFIE, <<"B">>, <<"F", "|">> \o Y1981 \o <<"|", "B">> }

KeyUrls ==
    { ItemUrl(<<"A", "1">>), ItemUrl(<<"A", "1", "b">>), ItemUrl(<<"g">>),
      ItemUrl(<<"g", "2">>) }

KeyInputs ==
    { Initiative(t, p, l, u) :
        t \in KeyTitres, p \in {Y1980, Y1981}, l \in KeyLieux, u \in KeyUrls }

AddResult ==
    /\ pc = "start"
    /\ Len(admitted) < MaxAdds
    /\ \E initiative \in KeyInputs :
         LET st == add_result(Store, initiative) IN
         /\ results' = st.results
         /\ seen_hashes' = st.seen_hashes
         /\ duplicates' = st.duplicates
         /\ admitted' = st.admitted
    /\ UNCHANGED <<pc, total, urls, i, tasks, semaphore, errors, parse_failures,
                   no_loc, found, reported, exported, fetch_calls, faults>>

SpecKey == Init /\ [][AddResult]_vars


(***************************************************************************)
(* Properties.                                                             *)
(***************************************************************************)
Range(f) == { f[k] : k \in DOMAIN f }

AdmittedKeys == { admitted[k].key : k \in DOMAIN admitted }

ErrorsFor(url) == Cardinality({ k \in DOMAIN errors : errors[k].url = url })

Holders == Cardinality({ t \in DOMAIN tasks : tasks[t].pc \in {"get", "sleep"} })

Finished == pc \in {"returned", "exit"}

(* C1: whatever the order in which the tasks of a batch complete, an       *)
(* add_result call is accepted exactly when no earlier call had the same   *)
(* key, so that N calls over M distinct keys leave M accepted records and  *)
(* N - M duplicate entries.                                                *)
C1_AcceptedOncePerKey ==
    /\ \A k \in DOMAIN admitted :
         admitted[k].accepted <=>
           (\A j \in 1..(k - 1) : admitted[j].key # admitted[k].key)
    /\ Len(results) = Cardinality(AdmittedKeys)
    /\ Len(duplicates) = Len(admitted) - Cardinality(AdmittedKeys)
    /\ seen_hashes = AdmittedKeys

(* two tasks of one batch have both completed, and one of them brought a   *)
(* key the other had already had accepted                                  *)
C1_Witness ==
    /\ pc = "crawl"
    /\ Cardinality({ t \in DOMAIN tasks : IsDone(tasks[t]) }) >= 2
    /\ Len(results) >= 2
    /\ Len(duplicates) >= 1

(* C2: a fetch answered 429 on every one of its `retries` attempts returns *)
(* failure with exactly one entry for its URL in errors.                   *)
C2_OneEntryAfter429s ==
    \A t \in DOMAIN tasks :
      (tasks[t].ret = "failure" /\ tasks[t].n429 = retries)
        => (tasks[t].logged = 1 /\ ErrorsFor(tasks[t].url) = 1)

(* C3: a fetch call that returned failure has appended exactly one entry   *)
(* to errors, and one that returned a body has appended none.              *)
C3_OneEntryPerFailure ==
    \A t \in DOMAIN tasks :
      /\ tasks[t].ret = "failure" => tasks[t].logged = 1
      /\ tasks[t].ret = "body" => tasks[t].logged = 0

(* C4: when the run ends, every record that is still without a place and   *)
(* whose URL holds an item identifier has had the secondary metadata       *)
(* endpoint fetched for that identifier.                                   *)
C4_OaiTriedBeforeGivingUp ==
    Finished =>
      \A k \in DOMAIN results :
        (results[k].lieu = NON_SPECIFIE /\ ItemId(results[k].url) # <<>>)
          => Called(fetch_calls, OaiUrl(ItemId(results[k].url))) >= 1


OaiCalls(f, init) == Called(f, OaiUrl(ItemId(init.url)))

(* the record at position k of results has been handed to a process_detail *)
(* task and that task has returned                                         *)
Processed(k) ==
    /\ pc \in {"enrich", "returned", "exit"}
    /\ \E n \in 1..Min(i + batch_size, Len(no_loc)) : no_loc[n] = k
    /\ \A t \in DOMAIN tasks : tasks[t].ref = k => IsDone(tasks[t])

C6_PermitsBalanced ==
    /\ semaphore >= 0
    /\ Holders <= MAX_CONCURRENT
    /\ semaphore + Holders = MAX_CONCURRENT
    /\ Finished => semaphore = MAX_CONCURRENT

(* a coroutine sleeps in a backoff holding its permit while another has a  *)
(* GET in flight                                                           *)
C6_Witness ==
    /\ \E t \in DOMAIN tasks : tasks[t].pc = "sleep"
    /\ \E t \in DOMAIN tasks : tasks[t].pc = "get"
    /\ Holders = 2
    /\ semaphore = MAX_CONCURRENT - 2

(* urls[i:i + batch_size] as a set of 0-based page indices *)
CurrentBatch == { p \in 0..(Len(urls) - 1) : i <= p /\ p < i + batch_size }

(* C7: list pages are fetched in batches of batch_size in plan order:      *)
(* during the crawl the coroutines are those of the pages of the current   *)
(* batch, in order, every page of an earlier batch has been fetched once,  *)
(* no page of a later batch has been fetched, and no coroutine of an       *)
(* earlier batch is still there when a batch starts.                       *)
C7_BatchesInOrder ==
    /\ \A t \in DOMAIN tasks :
         tasks[t].kind = "list" => tasks[t].ref \in CurrentBatch
    /\ pc = "crawl" =>
         /\ i % batch_size = 0
         /\ Len(tasks) = Cardinality(CurrentBatch)
         /\ \A t \in DOMAIN tasks :
              /\ tasks[t].kind = "list"
              /\ tasks[t].ref = i + t - 1
              /\ tasks[t].url = urls[i + t]
         /\ \A p \in 0..(Len(urls) - 1) :
              Called(fetch_calls, urls[p + 1]) = IF p < i + batch_size THEN 1 ELSE 0

(* the second batch is running after a first batch in which one page       *)
(* failed and another succeeded                                            *)
C7_Witness ==
    /\ pc = "crawl"
    /\ i = batch_size
    /\ \E t \in DOMAIN tasks : tasks[t].pc = "get"
    /\ Len(errors) = 1
    /\ Len(results) >= 1

EnrichmentUrls == { u \in DOMAIN fetch_calls : u.site \in {"item", "oai"} }

CrawlIncomplete ==
    \/ pc \in {"start", "planning", "crawl"}
    \/ \E t \in DOMAIN tasks : tasks[t].kind = "list" /\ ~IsDone(tasks[t])
    \/ \E p \in DOMAIN urls : Called(fetch_calls, urls[p]) = 0

(* C8: while a list-page coroutine is running or a planned page has not    *)
(* been processed, no detail page and no metadata record has been fetched, *)
(* there is no process_detail coroutine, and every accepted record is as   *)
(* parse_list_item built it.                                               *)
C8_EnrichAfterCrawl ==
    CrawlIncomplete =>
      /\ EnrichmentUrls = {}
      /\ \A t \in DOMAIN tasks : tasks[t].kind # "detail"
      /\ \A k \in DOMAIN results : results[k] \in Candidates
      /\ found = 0

(* enrichment is under way after a crawl of more than one batch: a record  *)
(* has been rewritten and a metadata fetch is in flight                    *)
C8_Witness ==
    /\ pc = "enrich"
    /\ Len(urls) > batch_size
    /\ \E t \in DOMAIN tasks : tasks[t].url.site = "oai" /\ tasks[t].pc = "get"
    /\ \E k \in DOMAIN results : results[k] \notin Candidates

(* C9: the plan for a total T >= 1 has ceil(T / ROWS_PER_PAGE) requests,   *)
(* the k-th (from 0) with offset k * ROWS_PER_PAGE and ROWS_PER_PAGE rows, *)
(* so that every result 0..T-1 lies in exactly one page.                   *)
C9_PlanCoversTotal ==
    pc = "planned" =>
      /\ Len(urls) * ROWS_PER_PAGE >= total
      /\ (Len(urls) - 1) * ROWS_PER_PAGE < total
      /\ \A k \in DOMAIN urls :
           /\ urls[k].site = "objekte"
           /\ urls[k].offset = (k - 1) * ROWS_PER_PAGE
           /\ urls[k].rows = ROWS_PER_PAGE
      /\ \A r \in 0..(total - 1) :
           Cardinality({ k \in DOMAIN urls :
                           urls[k].offset <= r /\ r < urls[k].offset + urls[k].rows }) = 1

(* the plan for 250 results: offsets 0, 100, 200 *)
C9_Witness ==
    /\ pc = "planned"
    /\ total = 250
    /\ [k \in DOMAIN urls |-> urls[k].offset] = <<0, 100, 200>>

(* C10: planning makes one fetch call, for the count query.  When it       *)
(* yields total = 0 the run ends with no other fetch call made, no record  *)
(* accepted and the failure reported; when it yields a total > 0 nothing   *)
(* is reported and the run ends only after every planned page has been     *)
(* fetched.                                                                *)
C10_OnlyPlanningStops ==
    /\ Called(fetch_calls, CountUrl) = IF pc = "start" THEN 0 ELSE 1
    /\ pc \in {"start", "planning"} => DOMAIN fetch_calls \subseteq {CountUrl}
    /\ (Finished /\ total = 0) =>
         /\ DOMAIN fetch_calls = {CountUrl}
         /\ results = <<>>
         /\ reported
         /\ ~exported
    /\ (Finished /\ total # 0) =>
         /\ ~reported
         /\ Len(urls) = PageCount(total)
         /\ \A p \in DOMAIN urls : Called(fetch_calls, urls[p]) = 1
    /\ reported => (Finished /\ total = 0)

(* the run has ended at planning because the count query failed *)
C10_Witness ==
    /\ pc = "exit"
    /\ total = 0
    /\ reported
    /\ ErrorsFor(CountUrl) = 1

(* C11: a list page whose fetch returns failure adds no record, no          *)
(* duplicate entry and no parse-failure entry and leaves the seen-set and  *)
(* the other coroutines as they are; no planned page is passed to fetch    *)
(* more than once, and however the pages of a batch returned, the next     *)
(* batch can start once all have returned and the run ends with every      *)
(* planned page fetched exactly once.                                      *)
C11_FailedPageSkipped ==
    /\ [](\A p \in DOMAIN urls : Called(fetch_calls, urls[p]) <= 1)
    /\ []((Finished /\ total # 0) =>
            \A p \in DOMAIN urls : Called(fetch_calls, urls[p]) = 1)
    /\ []((pc = "crawl" /\ \A t \in DOMAIN tasks : tasks[t].ret # "pending")
            => ENABLED CrawlBatchDone)
    /\ [][ \A t \in DOMAIN tasks :
             ( /\ tasks[t].kind = "list"
               /\ tasks[t].ret = "pending"
               /\ t \in DOMAIN tasks'
               /\ tasks'[t].ret = "failure" )
             => /\ results' = results
                /\ seen_hashes' = seen_hashes
                /\ duplicates' = duplicates
                /\ parse_failures' = parse_failures
                /\ admitted' = admitted
                /\ fetch_calls' = fetch_calls
                /\ IsDone(tasks'[t])
                /\ \A u \in DOMAIN tasks \ {t} : tasks'[u] = tasks[u] ]_vars

(* the second batch is being processed after a first batch whose first     *)
(* page failed and whose second page brought a record: a page of the       *)
(* second batch has returned a body                                        *)
C11_Witness ==
    /\ pc = "crawl"
    /\ i = batch_size
    /\ ErrorsFor(urls[1]) = 1
    /\ Len(results) >= 1
    /\ \E t \in DOMAIN tasks : tasks[t].kind = "list" /\ tasks[t].ret = "body"

(* the normalized triple (lowercased-trimmed title, period,                *)
(* lowercased-trimmed place) *)
Triple(init) ==
    <<strip(lower(init.titre)), init.periode, strip(lower(init.lieu))>>

(* C12: two records whose URLs hold the same item identifier get the same  *)
(* key and the later one is rejected, whatever their other fields; two     *)
(* records whose URLs hold no identifier get the same key, and the later   *)
(* one is rejected, exactly when their normalized triples are equal.       *)
C12_KeyPrecedence ==
    \A j, k \in DOMAIN admitted :
      j < k =>
        LET a == admitted[j].item
            b == admitted[k].item
        IN  /\ (ItemId(a.url) # <<>> /\ ItemId(a.url) = ItemId(b.url))
                 => (hash_key(a) = hash_key(b) /\ ~admitted[k].accepted)
            /\ (ItemId(a.url) = <<>> /\ ItemId(b.url) = <<>>)
                 => /\ (hash_key(a) = hash_key(b)) <=> (Triple(a) = Triple(b))
                    /\ (k = 2) =>
                         (~admitted[k].accepted <=> (Triple(a) = Triple(b)))

(* C13: a run whose planning gave a total above zero and that ends with no *)
(* accepted record has still called export_csv.                            *)
C13_EmptyRunExports ==
    (pc = "exit" /\ total > 0 /\ results = <<>>) => exported

(* the number of GETs the fetch call of a coroutine has issued so far *)
Gets(task) == IF task.pc = "acquire" THEN 0 ELSE task.attempt + 1

(* C14: a fetch call issues between one and `retries` GETs: it never has   *)
(* issued more than `retries`, and it has issued one when it returns.  A   *)
(* GET answered 200 ends the call with the body, one answered with another *)
(* status than 200 and 429 ends it at once with failure and one new entry  *)
(* in errors; after a 429 or a timeout the call sleeps and then, like      *)
(* after a transport error, issues the next GET only if fewer than         *)
(* `retries` have been issued, and returns failure otherwise.  A call that *)
(* has returned issues nothing more.                                       *)
C14_AttemptBudget ==
    /\ [](\A t \in DOMAIN tasks :
            /\ Gets(tasks[t]) <= retries
            /\ (tasks[t].ret # "pending") <=> IsDone(tasks[t])
            /\ IsDone(tasks[t]) => Gets(tasks[t]) >= 1
            /\ tasks[t].n429 <= Gets(tasks[t]))
    /\ [][ \A t \in DOMAIN tasks \cap DOMAIN tasks' :
             LET a == tasks[t]
                 b == tasks'[t]
             IN  (b # a) =>
                   CASE a.pc = "acquire" -> b.pc = "get" /\ Gets(b) = 1
                     [] a.pc = "get" ->
                          \/ b.pc = "done" /\ b.ret = "body" /\ Gets(b) = Gets(a)
                             /\ errors' = errors
                          \/ b.pc = "acquire" /\ errors' = errors
                          \/ b.pc = "done" /\ b.ret = "failure" /\ Gets(b) = Gets(a)
                             /\ Len(errors') = Len(errors) + 1
                             /\ b.logged = a.logged + 1
                          \/ b.pc = "sleep" /\ Gets(b) = Gets(a)
                             /\ Gets(a) <= retries /\ errors' = errors
                          \/ b.pc = "get" /\ Gets(b) = Gets(a) + 1
                             /\ Gets(a) < retries /\ errors' = errors
                     [] a.pc = "sleep" ->
                          \/ b.pc = "get" /\ Gets(b) = Gets(a) + 1
                             /\ Gets(a) < retries
                          \/ b.pc = "done" /\ b.ret = "failure"
                             /\ Gets(a) = retries
                     [] OTHER -> b.pc = "acquire" ]_vars

(* a call has returned failure after `retries` GETs of which one was       *)
(* answered 429 and the last raised a transport error                      *)
C14_Witness ==
    \E t \in DOMAIN tasks :
      /\ IsDone(tasks[t])
      /\ tasks[t].ret = "failure"
      /\ Gets(tasks[t]) = retries
      /\ tasks[t].n429 = 1
      /\ tasks[t].logged = 1

(* the URLs the enrichment pass may fetch for the record at position k *)
UrlsOf(k) == {results[k].url, OaiUrl(ItemId(results[k].url))}

(* C15: the enrichment pass takes the records whose place is the           *)
(* unspecified marker when it starts, fetches only their detail pages and  *)
(* metadata records, and changes only their place: a place goes from the   *)
(* unspecified marker to a specified value and is not written again; the   *)
(* other fields of every record, the place of the other records, the       *)
(* seen-set and the length and order of results stay as they are.          *)
C15_EnrichmentFrame ==
    /\ [](pc = "enrich" =>
            /\ \A k \in DOMAIN results :
                 k \notin Range(no_loc) => results[k].lieu # NON_SPECIFIE
            /\ \A t \in DOMAIN tasks :
                 /\ tasks[t].kind = "detail"
                 /\ tasks[t].ref \in Range(no_loc)
                 /\ tasks[t].url \in UrlsOf(tasks[t].ref))
    /\ [][ (pc = "enrich" \/ pc' = "enrich") =>
             /\ pc = "crawl" =>
                  Range(no_loc') =
                    { k \in DOMAIN results : results[k].lieu = NON_SPECIFIE }
             /\ pc = "enrich" => no_loc' = no_loc
             /\ seen_hashes' = seen_hashes
             /\ Len(results') = Len(results)
             /\ \A k \in DOMAIN results :
                  \/ results'[k] = results[k]
                  \/ /\ k \in Range(no_loc)
                     /\ results[k].lieu = NON_SPECIFIE
                     /\ results'[k].lieu \notin {NON_SPECIFIE, <<>>}
                     /\ results'[k] = [results[k] EXCEPT !.lieu = results'[k].lieu]
             /\ \A u \in DOMAIN fetch_calls' :
                  Called(fetch_calls', u) > Called(fetch_calls, u)
                    => \E k \in Range(no_loc') : u \in UrlsOf(k) ]_vars

(* the run has ended with a record that had its place from the list page,  *)
(* a record the pass gave a place, and a record the pass left unspecified  *)
C15_Witness ==
    /\ pc = "exit"
    /\ \E k \in DOMAIN results :
         k \notin Range(no_loc) /\ results[k].lieu = BERLIN
    /\ \E k \in Range(no_loc) : results[k].lieu = BERLIN
    /\ \E k \in Range(no_loc) : results[k].lieu = NON_SPECIFIE

Unspecified == { k \in DOMAIN results : results[k].lieu = NON_SPECIFIE }

(* C16: in every state, and so when enrich_missing_locations returns and   *)
(* for every order in which the process_detail tasks of a batch complete,  *)
(* found is the number of records of no_loc whose place is no longer the   *)
(* unspecified marker, which is the number of unspecified records when the *)
(* pass started less the number now.                                       *)
C16_FoundCountsChanges ==
    /\ found = Cardinality({ k \in Range(no_loc) : results[k].lieu # NON_SPECIFIE })
    /\ pc \in {"enrich", "returned", "exit"} =>
         found = Len(no_loc) - Cardinality(Unspecified)

(* the pass has returned 2 for three records: the two of its first batch   *)
(* were given a place, the one of its second batch was not                 *)
C16_Witness ==
    /\ pc = "exit"
    /\ Len(no_loc) = 3
    /\ found = 2
    /\ results[no_loc[3]].lieu = NON_SPECIFIE

(* C17: when every GET and every sleep ends, the run ends: main reaches    *)
(* its end with every coroutine returned, every planned page and every     *)
(* enrichment batch done and all permits back.  Until then some step is    *)
(* always possible, and a coroutine that waits for a permit holds none (it *)
(* is not among the holders the pool accounts for), so the run never       *)
(* blocks on the permit pool.                                              *)
C17_RunTerminates ==
    /\ <>( /\ pc = "exit"
           /\ \A t \in DOMAIN tasks : IsDone(tasks[t]) /\ Gets(tasks[t]) <= retries
           /\ semaphore = MAX_CONCURRENT
           /\ (total # 0) =>
                /\ \A p \in DOMAIN urls : Called(fetch_calls, urls[p]) = 1
                /\ \A k \in Range(no_loc) : Called(fetch_calls, results[k].url) >= 1 )
    /\ [](pc # "exit" => ENABLED Next)
    /\ []((\E t \in DOMAIN tasks : tasks[t].pc = "acquire") =>
            semaphore = MAX_CONCURRENT - Holders)

(* a run of two crawl batches and two enrichment batches has ended, the    *)
(* detail-page fetch of its last enrichment batch having failed            *)
C17_Witness ==
    /\ pc = "exit"
    /\ Len(urls) > batch_size
    /\ Len(no_loc) > batch_size
    /\ ErrorsFor(results[no_loc[Len(no_loc)]].url) = 1

(* the fetch calls that have been made and have not returned *)
Outstanding == { t \in DOMAIN tasks : ~IsDone(tasks[t]) }

(* C18: never more than batch_size fetch calls are outstanding, in the     *)
(* crawl and in the enrichment pass (where a coroutine is in its           *)
(* detail-page fetch or in its metadata fetch, not both); batch_size is    *)
(* below MAX_CONCURRENT, so no more than batch_size permits are ever taken *)
(* and a coroutine that asks for a permit finds one free.                  *)
C18_BatchBoundsFetches ==
    /\ batch_size < MAX_CONCURRENT
    /\ Cardinality(Outstanding) <= batch_size
    /\ Len(tasks) <= batch_size
    /\ \A t, u \in DOMAIN tasks :
         (t # u /\ tasks[t].kind = "detail") => tasks[t].ref # tasks[u].ref
    /\ Holders <= batch_size
    /\ semaphore >= MAX_CONCURRENT - batch_size
    /\ \A t \in DOMAIN tasks : tasks[t].pc = "acquire" => ENABLED Acquire(t)

(* a full enrichment batch has its GETs in flight, one of them for a       *)
(* metadata record                                                         *)
C18_Witness ==
    /\ pc = "enrich"
    /\ Cardinality({ t \in DOMAIN tasks : tasks[t].pc = "get" }) = batch_size
    /\ \E t \in DOMAIN tasks : tasks[t].url.site = "oai"
    /\ semaphore = MAX_CONCURRENT - batch_size

(* C19: in every state the accepted records have pairwise distinct keys,   *)
(* and the key of each, computed from its fields as they are now, is in    *)
(* seen_hashes.                                                            *)
C19_KeysStayConsistent ==
    /\ \A j, k \in DOMAIN results :
         j # k => hash_key(results[j]) # hash_key(results[k])
    /\ \A k \in DOMAIN results : hash_key(results[k]) \in seen_hashes

IsPrefix(p, q) == Len(p) <= Len(q) /\ SubSeq(q, 1, Len(p)) = p

(* the entries of results as objects: the fields no code assigns after     *)
(* construction (lieu is assigned by process_detail)                       *)
Entries(res) ==
    [k \in DOMAIN res |->
       [titre |-> res[k].titre, periode |-> res[k].periode,
        url |-> res[k].url, institution |-> res[k].institution]]

(* C20: in every state results has as many entries as seen_hashes has      *)
(* keys, and results and duplicates together have one entry per add_result *)
(* call made.  In every step seen_hashes keeps its keys, and results,      *)
(* errors, duplicates and parse_failures keep their entries in their       *)
(* positions, new ones coming at the end: each list is a prefix of what it *)
(* is after the step (for results, entry by entry; outside the enrichment  *)
(* pass also value by value).                                              *)
C20_AppendOnly ==
    /\ [](Len(results) = Cardinality(seen_hashes))
    /\ [](Len(results) + Len(duplicates) = Len(admitted))
    /\ [][ /\ seen_hashes \subseteq seen_hashes'
           /\ IsPrefix(Entries(results), Entries(results'))
           /\ pc # "enrich" => IsPrefix(results, results')
           /\ IsPrefix(errors, errors')
           /\ IsPrefix(duplicates, duplicates')
           /\ IsPrefix(parse_failures, parse_failures')
           /\ IsPrefix(admitted, admitted') ]_vars

(* the run has ended with records accepted from more than one page, a      *)
(* duplicate rejected, a fetch failure recorded and a place rewritten      *)
C20_Witness ==
    /\ pc = "exit"
    /\ Len(urls) >= 2
    /\ Len(results) = 2
    /\ Len(duplicates) = 1
    /\ Len(errors) = 1
    /\ found = 1

====
